---------------------------- MODULE Spec2Model ----------------------------
(***************************************************************************)
(* Model of the catalog / sales reconciliation engine of sarma-crm:        *)
(* app/product_parser.py (text normalizer, catalog line parser, canonical  *)
(* key builder, weight and flavor extractors, fuzzy matcher) and the       *)
(* handlers of app/main.py that call it (product_new, products_import,     *)
(* import_xlsx).                                                           *)
(*                                                                         *)
(* A Python str is a sequence of Unicode code points (integers), so that   *)
(* lower(), the regular expressions' character classes and \b are computed *)
(* as Python computes them.  An Optional value is <<>> (None) or <<v>>.    *)
(***************************************************************************)
EXTENDS Integers, Sequences, FiniteSets, TLC

VARIABLES products,   \* the products table, in insertion (id) order
          sales,      \* the sales table, in insertion order
          call        \* the last operation: its name, inputs and result

vars == <<products, sales, call>>

None == <<>>
Some(v) == <<v>>

-----------------------------------------------------------------------------
(* Characters the source names, as code points.                            *)
SP == 32
NL == 10
QUOTE == 34
LPAREN == 40
RPAREN == 41
HYPHEN == 45
YO == 1105
YE == 1077

(* Words the source names.                                                 *)
PHRASE_DASH == <<1090, 1072, 1073, 1072, 1082, 32, 1076, 1083, 1103, 32, 1082, 1072, 1083, 1100, 1103, 1085, 1072, 32, 45>>   \* "табак для кальяна -"
PHRASE == <<1090, 1072, 1073, 1072, 1082, 32, 1076, 1083, 1103, 32, 1082, 1072, 1083, 1100, 1103, 1085, 1072>>   \* "табак для кальяна"
LINE_LIGHT == <<1083, 1077, 1075, 1082, 1072, 1103, 32, 1083, 1080, 1085, 1077, 1081, 1082, 1072>>   \* "легкая линейка"
LINE_STRONG == <<1082, 1088, 1077, 1087, 1082, 1072, 1103, 32, 1083, 1080, 1085, 1077, 1081, 1082, 1072>>   \* "крепкая линейка"
WORD_LIGHT == <<1083, 1077, 1075, 1082, 1072, 1103>>   \* "легкая"
WORD_STRONG == <<1082, 1088, 1077, 1087, 1082, 1072, 1103>>   \* "крепкая"
MARKER_LIGHT == <<1051, 1077, 1075, 1082, 1072, 1103>>   \* "Легкая"
MARKER_STRONG == <<1050, 1088, 1077, 1087, 1082, 1072, 1103>>   \* "Крепкая"
UNIT_SUFFIX == <<1075, 46>>   \* "г."
DEFAULT_CATEGORY == <<1058, 1072, 1073, 1072, 1082, 32, 1076, 1083, 1103, 32, 1082, 1072, 1083, 1100, 1103, 1085, 1072>>   \* "Табак для кальяна"

-----------------------------------------------------------------------------
(* Python's character predicates, on the Basic Latin, Latin-1 and Cyrillic *)
(* (U+0400..U+045F) ranges the model's texts are drawn from.               *)

\* str.isspace(), the regular expressions' \s and the separators of str.split()
WhiteSpace == {9, 10, 11, 12, 13, 28, 29, 30, 31, 32, 133, 160}
IsSpace(c) == c \in WhiteSpace

\* the regular expressions' \d
Digits == 48..57
IsDigit(c) == c \in Digits

\* the regular expressions' \w, which decides \b
WordChars ==
    (48..57) \cup (65..90) \cup {95} \cup (97..122)
        \cup {170, 178, 179, 181, 185, 186} \cup (188..190)
        \cup (192..214) \cup (216..246) \cup (248..255)
        \cup (1024..1119)
IsWordChar(c) == c \in WordChars

\* str.lower() of one character
LowerChar(c) ==
    IF c \in 65..90 \/ c \in 192..214 \/ c \in 216..222 \/ c \in 1040..1071
    THEN c + 32
    ELSE IF c \in 1024..1039 THEN c + 80
    ELSE c

lower(s) == [i \in 1..Len(s) |-> LowerChar(s[i])]

\* str.replace for one character by one character
replace_char(s, a, b) == [i \in 1..Len(s) |-> IF s[i] = a THEN b ELSE s[i]]

\* the least and the greatest element of a non-empty set of indices
first_of(S) == CHOOSE i \in S : \A j \in S : i <= j
last_of(S) == CHOOSE i \in S : \A j \in S : j <= i

lstrip(s) ==
    LET kept == {i \in 1..Len(s) : ~IsSpace(s[i])}
    IN  IF kept = {} THEN <<>> ELSE SubSeq(s, first_of(kept), Len(s))

rstrip(s) ==
    LET kept == {i \in 1..Len(s) : ~IsSpace(s[i])}
    IN  IF kept = {} THEN <<>> ELSE SubSeq(s, 1, last_of(kept))

\* str.strip()
strip(s) == rstrip(lstrip(s))

\* the words of s.split() joined by single spaces, s having no whitespace at
\* either end: every maximal run of whitespace becomes one space
squeeze(s) ==
    LET starts == SelectSeq([i \in 1..Len(s) |-> i],
                            LAMBDA i : ~IsSpace(s[i]) \/ i = 1 \/ ~IsSpace(s[i - 1]))
    IN  [k \in 1..Len(starts) |-> IF IsSpace(s[starts[k]]) THEN SP ELSE s[starts[k]]]

\* " ".join(s.split())
split_join(s) == squeeze(strip(s))

\* the index of the first c in s, 0 when there is none
find_char(s, c) ==
    LET hits == {i \in 1..Len(s) : s[i] = c}
    IN  IF hits = {} THEN 0 ELSE first_of(hits)

\* whether pat occurs in s at index i (1-based)
occurs_at(s, pat, i) ==
    /\ i >= 1
    /\ i + Len(pat) - 1 <= Len(s)
    /\ \A k \in 1..Len(pat) : s[i + k - 1] = pat[k]

\* str.find: the index of the first occurrence of pat in s, 0 when there is none
find(s, pat) ==
    LET hits == {i \in 1..(Len(s) + 1) : occurs_at(s, pat, i)}
    IN  IF hits = {} THEN 0 ELSE first_of(hits)

\* s[i:] of Python for the 1-based index i of its first kept character
drop(s, i) == SubSeq(s, i, Len(s))

\* where the match of r"\(.*?\)" at index i ends, 0 when there is none: at the
\* nearest ")" after a "(" at i, unless a newline comes first ("." matches no
\* newline)
paren_end(s, i) ==
    IF s[i] # LPAREN THEN 0
    ELSE LET closes == {k \in (i + 1)..Len(s) : s[k] = RPAREN}
             close == IF closes = {} THEN 0 ELSE first_of(closes)
         IN  IF close > 0 /\ \A k \in (i + 1)..(close - 1) : s[k] # NL THEN close ELSE 0

\* re.sub scans from index p: the leftmost match is replaced by a space and the
\* scan goes on after it
RECURSIVE sub_parens_from(_, _)
sub_parens_from(s, p) ==
    LET hits == {i \in p..Len(s) : paren_end(s, i) > 0}
    IN  IF hits = {} THEN drop(s, p)
        ELSE LET i == first_of(hits)
             IN  SubSeq(s, p, i - 1) \o <<SP>> \o sub_parens_from(s, paren_end(s, i) + 1)

\* re.sub(r"\(.*?\)", " ", s)
sub_parens(s) == sub_parens_from(s, 1)

\* re.sub(r"[^<keep>]+", " ", s): every maximal run of characters outside keep
\* becomes one space
sub_class(s, keep) ==
    LET starts == SelectSeq([i \in 1..Len(s) |-> i],
                            LAMBDA i : s[i] \in keep \/ i = 1 \/ s[i - 1] \in keep)
    IN  [k \in 1..Len(starts) |-> IF s[starts[k]] \in keep THEN s[starts[k]] ELSE SP]

\* [a-zа-я0-9\s]
NormClass == (97..122) \cup (1072..1103) \cup (48..57) \cup WhiteSpace

\* the normalizer without its character filter (line 19)
normalize_text_nofilter(s) ==
    split_join(replace_char(sub_parens(replace_char(lower(s), YO, YE)), HYPHEN, SP))

normalize_text(s) ==
    split_join(
        sub_class(
            replace_char(sub_parens(replace_char(lower(s), YO, YE)), HYPHEN, SP),
            NormClass))

-----------------------------------------------------------------------------
(* parse_product_line                                                      *)

\* str.startswith
startswith(s, prefix) == occurs_at(s, prefix, 1)

\* the first index at or after i whose character is outside set, Len(s) + 1
\* when there is none: where a greedy \d+ or \s* that starts at i ends
skip_in(s, i, set) ==
    LET stops == {k \in i..Len(s) : s[k] \notin set}
    IN  IF stops = {} THEN Len(s) + 1 ELSE first_of(stops)

\* the text up to its first newline: what "(.*)" matches
upto_newline(s) ==
    LET nl == find_char(s, NL) IN IF nl = 0 THEN s ELSE SubSeq(s, 1, nl - 1)

\* re.match(r'"([^"]+)"\s*(.*)', line): None, or the two groups
match_quoted(line) ==
    LET close == IF line = <<>> THEN 0 ELSE find_char(Tail(line), QUOTE)
    IN  IF line = <<>> \/ Head(line) # QUOTE \/ close < 2
        THEN None
        ELSE LET after == drop(line, close + 2)
             IN  Some(<<SubSeq(line, 2, close),
                        upto_newline(drop(after, skip_in(after, 1, WhiteSpace)))>>)

\* the loop over the markers "Легкая", "Крепкая" (lines 46-53)
split_marker(rest) ==
    IF startswith(rest, MARKER_LIGHT \o <<SP>>)
    THEN [line |-> Some(MARKER_LIGHT), flavor |-> strip(drop(rest, Len(MARKER_LIGHT) + 1))]
    ELSE IF startswith(rest, MARKER_STRONG \o <<SP>>)
    THEN [line |-> Some(MARKER_STRONG), flavor |-> strip(drop(rest, Len(MARKER_STRONG) + 1))]
    ELSE [line |-> None, flavor |-> rest]

\* a parser that searches the quoted brand anywhere in the line (re.search)
parse_product_line_search(line0) ==
    LET line == strip(line0)
        q == find_char(line, QUOTE)
        m == IF q = 0 THEN None ELSE match_quoted(drop(line, q))
    IN  IF m = None THEN None
        ELSE LET lf == split_marker(strip(m[1][2]))
             IN  IF lf.flavor = <<>> THEN None
                 ELSE Some([brand |-> strip(m[1][1]), line |-> lf.line,
                            flavor |-> lf.flavor])

parse_product_line(line0) ==
    LET line == strip(line0)
        m == match_quoted(line)
    IN  IF find_char(line, QUOTE) = 0 THEN None
        ELSE IF m = None THEN None
        ELSE LET lf == split_marker(strip(m[1][2]))
             IN  IF lf.flavor = <<>> THEN None
                 ELSE Some([brand |-> strip(m[1][1]), line |-> lf.line,
                            flavor |-> lf.flavor])

-----------------------------------------------------------------------------
(* build_canonical_sku, build_canonical_name                               *)

\* the truth value of an Optional[str]: neither None nor ""
truthy_str(o) == o # None /\ o[1] # <<>>
\* the truth value of an Optional[int]: neither None nor 0
truthy_int(o) == o # None /\ o[1] # 0

RECURSIVE str_nat(_)
str_nat(n) == IF n < 10 THEN <<48 + n>> ELSE str_nat(n \div 10) \o <<48 + (n % 10)>>

\* str(n) of an int
str_int(n) == IF n < 0 THEN <<HYPHEN>> \o str_nat(0 - n) ELSE str_nat(n)

build_canonical_sku(category, brand, line, flavor) ==
    IF truthy_str(line)
    THEN category \o <<SP, QUOTE>> \o brand \o <<QUOTE, SP>> \o line[1] \o <<SP>> \o flavor
    ELSE category \o <<SP, QUOTE>> \o brand \o <<QUOTE, SP>> \o flavor

build_canonical_name(canonical_sku, weight) ==
    IF truthy_int(weight)
    THEN canonical_sku \o <<SP>> \o str_int(weight[1]) \o UNIT_SUFFIX
    ELSE canonical_sku

-----------------------------------------------------------------------------
(* extract_weight                                                          *)

UNIT_CYR == 1075     \* "г"
UNIT_CYR_R == 1088   \* the "р" of "гр"
UNIT_LAT == 103      \* "g"

RECURSIVE int_digits(_)
\* int() of a run of decimal digits
int_digits(d) ==
    IF d = <<>> THEN 0 ELSE 10 * int_digits(SubSeq(d, 1, Len(d) - 1)) + (d[Len(d)] - 48)

\* where the greedy \d+ that starts at i ends (exclusive), and where the \s*
\* after it ends (exclusive)
digits_end(s, i) == skip_in(s, i, 48..57)
unit_index(s, i) == skip_in(s, digits_end(s, i), WhiteSpace)

\* whether r"(\d+)\s*(г|гр|g)" matches at index i
weight_at(s, i) ==
    /\ IsDigit(s[i])
    /\ unit_index(s, i) <= Len(s)
    /\ s[unit_index(s, i)] \in {UNIT_CYR, UNIT_LAT}

extract_weight(raw) ==
    LET s == lower(raw)
        hits == {i \in 1..Len(s) : weight_at(s, i)}
    IN  IF hits = {} THEN None
        ELSE LET i == CHOOSE h \in hits : \A g \in hits : h <= g
             IN  Some(int_digits(SubSeq(s, i, digits_end(s, i) - 1)))

-----------------------------------------------------------------------------
(* extract_flavor_from_raw                                                 *)

\* whether index e ends a word: the \b after a word character at e
word_ends(s, e) == e = Len(s) \/ ~IsWordChar(s[e + 1])
\* whether a word may start at index i: the \b before a word character at i
word_starts(s, i) == i = 1 \/ ~IsWordChar(s[i - 1])

\* the index where the match of r"\d+\s*(г|гр|g)\b" at index i ends, 0 when
\* there is no match at i
weight_note_end(s, i) ==
    IF ~IsDigit(s[i]) THEN 0
    ELSE LET u == unit_index(s, i)
         IN  IF u > Len(s) THEN 0
             ELSE IF s[u] = UNIT_CYR /\ word_ends(s, u) THEN u
             ELSE IF s[u] = UNIT_CYR /\ u < Len(s) /\ s[u + 1] = UNIT_CYR_R
                     /\ word_ends(s, u + 1) THEN u + 1
             ELSE IF s[u] = UNIT_LAT /\ word_ends(s, u) THEN u
             ELSE 0

RECURSIVE sub_weight_from(_, _)
sub_weight_from(s, p) ==
    LET hits == {i \in p..Len(s) : weight_note_end(s, i) > 0}
    IN  IF hits = {} THEN drop(s, p)
        ELSE LET i == first_of(hits)
             IN  SubSeq(s, p, i - 1) \o <<SP>>
                     \o sub_weight_from(s, weight_note_end(s, i) + 1)

\* the weight annotations left in place
sub_weight_skipped(s) == s

\* re.sub(r"\d+\s*(г|гр|g)\b", " ", text)
sub_weight(s) == sub_weight_from(s, 1)

\* str.replace(pat, " ") from index p on: the occurrences of pat, left to right,
\* not overlapping
RECURSIVE replace_from(_, _, _)
replace_from(s, pat, p) ==
    LET hits == {i \in p..Len(s) : occurs_at(s, pat, i)}
    IN  IF hits = {} THEN drop(s, p)
        ELSE LET i == first_of(hits)
             IN  SubSeq(s, p, i - 1) \o <<SP>> \o replace_from(s, pat, i + Len(pat))

replace_all(s, pat) == replace_from(s, pat, 1)

\* the length of the alternative of r"\b(a|b)\b" that matches at index i, 0 when
\* neither does
word_match_len(s, i, a, b) ==
    IF ~word_starts(s, i) THEN 0
    ELSE IF occurs_at(s, a, i) /\ word_ends(s, i + Len(a) - 1) THEN Len(a)
    ELSE IF occurs_at(s, b, i) /\ word_ends(s, i + Len(b) - 1) THEN Len(b)
    ELSE 0

RECURSIVE sub_words_from(_, _, _, _)
sub_words_from(s, p, a, b) ==
    LET hits == {i \in p..Len(s) : word_match_len(s, i, a, b) > 0}
    IN  IF hits = {} THEN drop(s, p)
        ELSE LET i == first_of(hits)
             IN  SubSeq(s, p, i - 1) \o <<SP>>
                     \o sub_words_from(s, i + word_match_len(s, i, a, b), a, b)

\* re.sub(r"\b(a|b)\b", " ", text)
sub_words(s, a, b) == sub_words_from(s, 1, a, b)

\* {p.brand.lower() for p in products if p.brand}
brand_set(prods) ==
    {lower(prods[i].brand) : i \in {j \in 1..Len(prods) : prods[j].brand # <<>>}}

\* sorted(<that set>, key=len, reverse=True): the sort is stable, so brands of
\* one length keep the set's iteration order, which depends on the strings'
\* hashes (randomized per process): every longest-first order is possible
brand_orders(prods) ==
    LET bs == brand_set(prods)
        n == Cardinality(bs)
    IN  {o \in [1..n -> bs] :
            /\ \A i, j \in 1..n : i # j => o[i] # o[j]
            /\ \A i, j \in 1..n : i < j => Len(o[i]) >= Len(o[j])}

\* the loop over the brands run from the end of the list: the shortest brand
\* that occurs is the cut point
RECURSIVE cut_brand_last(_, _)
cut_brand_last(text, brands) ==
    IF brands = <<>> THEN text
    ELSE LET b == brands[Len(brands)]
             idx == find(text, b)
         IN  IF idx # 0 THEN drop(text, idx + Len(b))
             ELSE cut_brand_last(text, SubSeq(brands, 1, Len(brands) - 1))

\* the loop over the brands (lines 117-122): cut the text after the first brand
\* of the list that occurs in it
RECURSIVE cut_brand(_, _)
cut_brand(text, brands) ==
    IF brands = <<>> THEN text
    ELSE LET idx == find(text, Head(brands))
         IN  IF idx # 0 THEN drop(text, idx + Len(Head(brands)))
             ELSE cut_brand(text, Tail(brands))

\* [a-zа-я0-9\s\-]
FlavorClass == NormClass \cup {HYPHEN}

\* the text before the brand is cut (lines 98-113)
strip_noise(raw) ==
    sub_words(
        sub_words(
            replace_all(replace_all(sub_weight(sub_parens(lower(raw))), PHRASE_DASH),
                        PHRASE),
            LINE_LIGHT, LINE_STRONG),
        WORD_LIGHT, WORD_STRONG)

\* extract_flavor_from_raw(raw, products), brands being the sorted brand list
\* the call derived from products
extract_flavor_from_raw(raw, brands) ==
    split_join(
        replace_char(sub_class(cut_brand(strip_noise(raw), brands), FlavorClass),
                     HYPHEN, SP))

-----------------------------------------------------------------------------
(* match_product_by_flavor                                                 *)

\* fuzz.WRatio returns a float in [0, 100]; the model counts it in tenths
ScoreScale == 10
THRESHOLD == 70
EXACT_SCORE == 100

\* int(score) replaced by round(score)
int_score_round(score) == (2 * score + ScoreScale) \div (2 * ScoreScale)

\* int(score): truncation
int_score(score) == score \div ScoreScale

\* list(flavor_map.keys()): the distinct flavors, in order of first occurrence
flavor_keys(prods) ==
    LET firsts == {i \in 1..Len(prods) :
                      \A j \in 1..(i - 1) : prods[j].flavor # prods[i].flavor}
        RECURSIVE from(_)
        from(i) == IF i > Len(prods) THEN <<>>
                   ELSE IF i \in firsts THEN <<prods[i].flavor>> \o from(i + 1)
                   ELSE from(i + 1)
    IN  from(1)

\* flavor_map[f] of {p.flavor: p for p in products}: a later product replaces an
\* earlier one under the same key; the result is the product's id (its index)
flavor_map(prods, f) ==
    CHOOSE i \in 1..Len(prods) :
        /\ prods[i].flavor = f
        /\ \A j \in (i + 1)..Len(prods) : prods[j].flavor # f

\* process.extractOne(query, choices, scorer=fuzz.WRatio): None for no choices,
\* else the first choice of the highest score; score[c] is the scorer's result
\* for choice c
extractOne(choices, score) ==
    IF choices = <<>> THEN None
    ELSE LET k == CHOOSE i \in 1..Len(choices) :
                      /\ \A j \in 1..Len(choices) : score[choices[j]] <= score[choices[i]]
                      /\ \A j \in 1..(i - 1) : score[choices[j]] < score[choices[i]]
         IN  Some(<<choices[k], score[choices[k]]>>)

\* an exact pass that keeps the last product it finds
exact_pass_last(prods, norm_query) ==
    LET hits == {i \in 1..Len(prods) : prods[i].norm_flavor = norm_query}
    IN  IF hits = {} THEN 0 ELSE CHOOSE i \in hits : \A j \in hits : i >= j

\* the exact pass (lines 156-158): the id of the first product whose norm_flavor
\* is the query, 0 when there is none
exact_pass(prods, norm_query) ==
    LET hits == {i \in 1..Len(prods) : prods[i].norm_flavor = norm_query}
    IN  IF hits = {} THEN 0 ELSE CHOOSE i \in hits : \A j \in hits : i <= j

\* the query the two passes use (lines 149-151)
flavor_query_of(raw_name, brands) ==
    LET q == extract_flavor_from_raw(raw_name, brands)
    IN  IF q = <<>> THEN raw_name ELSE q

\* an approximate pass without the threshold test of line 174
fuzzy_pass_no_threshold(prods, score) ==
    LET match == extractOne(flavor_keys(prods), score)
    IN  IF match = None THEN <<None, 0>>
        ELSE <<Some(flavor_map(prods, match[1][1])), int_score(match[1][2])>>

\* the approximate pass (lines 160-177)
fuzzy_pass(prods, score) ==
    LET match == extractOne(flavor_keys(prods), score)
    IN  IF match = None THEN <<None, 0>>
        ELSE IF match[1][2] < THRESHOLD * ScoreScale
        THEN <<None, int_score(match[1][2])>>
        ELSE <<Some(flavor_map(prods, match[1][1])), int_score(match[1][2])>>

\* match_product_by_flavor(raw_name, products): the product's id (or None) and
\* the score
match_product_by_flavor(raw_name, prods, brands, score) ==
    IF prods = <<>> THEN <<None, 0>>
    ELSE LET norm_query == normalize_text(flavor_query_of(raw_name, brands))
             hit == exact_pass(prods, norm_query)
         IN  IF hit # 0 THEN <<Some(hit), EXACT_SCORE>>
             ELSE fuzzy_pass(prods, score)

-----------------------------------------------------------------------------
(* The products table's rows, as product_new and products_import build     *)
(* them (main.py lines 91-104 and 134-147).                                *)
new_product(category, brand, line_val, flavor, default_weight_g) ==
    LET sku == build_canonical_sku(category, brand, line_val, flavor)
    IN  [category |-> category,
         brand |-> brand,
         line |-> line_val,
         flavor |-> flavor,
         canonical_sku |-> sku,
         canonical_name |-> build_canonical_name(sku, default_weight_g),
         default_weight_g |-> default_weight_g,
         norm_brand |-> normalize_text(brand),
         norm_flavor |-> normalize_text(flavor),
         is_active |-> TRUE]

-----------------------------------------------------------------------------
(* Bounded input texts.                                                    *)

\* all concatenations of at most n pieces drawn from toks
RECURSIVE Concats(_, _)
Concats(toks, n) ==
    IF n = 0 THEN {<<>>}
    ELSE {t \o s : t \in toks \cup {<<>>}, s \in Concats(toks, n - 1)}

MaxNormLen == 3
\* A a Б б Ё ё 1 - ( ) . space newline
NormAlphabet == {<<65>>, <<97>>, <<1041>>, <<1073>>, <<1025>>, <<1105>>, <<49>>,
                 <<45>>, <<40>>, <<41>>, <<46>>, <<32>>, <<10>>}
NormTexts == Concats(NormAlphabet, MaxNormLen)

MaxLineTokens == 6
\* " B space Легкая Крепкая
LineTokens == {<<QUOTE>>, <<66>>, <<SP>>, MARKER_LIGHT, MARKER_STRONG}
LineTexts == Concats(LineTokens, MaxLineTokens)

MaxWeightTokens == 4
\* 1 20 space г р g x
WeightTokens == {<<49>>, <<50, 48>>, <<SP>>, <<UNIT_CYR>>, <<UNIT_CYR_R>>, <<UNIT_LAT>>, <<120>>}
WeightTexts == Concats(WeightTokens, MaxWeightTokens)

MaxWeight == 120
\* None, negative, zero, one digit, several digits
Weights == {None} \cup {Some(w) : w \in {0 - MaxWeight, -5, 0, 7, MaxWeight}}
\* X, and a canonical SKU
Skus == {<<88>>, build_canonical_sku(DEFAULT_CATEGORY, <<66>>, None, <<70>>)}

-----------------------------------------------------------------------------
(* A call of one of the engine's pure functions: drawn pending, then run.  *)
Pending(op, arg) == [op |-> op, arg |-> arg, done |-> FALSE]
Returned(op, arg, res) == [op |-> op, arg |-> arg, done |-> TRUE, res |-> res]
IsPending(op) == call.op = op /\ ~call.done
IsReturned(op) == call.op = op /\ call.done

NormalizeCall ==
    /\ IsPending("normalize_text")
    /\ call' = Returned("normalize_text", call.arg, normalize_text(call.arg))
    /\ UNCHANGED <<products, sales>>

ParseCall ==
    /\ IsPending("parse_product_line")
    /\ call' = Returned("parse_product_line", call.arg, parse_product_line(call.arg))
    /\ UNCHANGED <<products, sales>>

BuildNameCall ==
    /\ IsPending("build_canonical_name")
    /\ call' = Returned("build_canonical_name", call.arg,
                        build_canonical_name(call.arg[1], call.arg[2]))
    /\ UNCHANGED <<products, sales>>

ExtractWeightCall ==
    /\ IsPending("extract_weight")
    /\ call' = Returned("extract_weight", call.arg, extract_weight(call.arg))
    /\ UNCHANGED <<products, sales>>

InitText ==
    /\ products = <<>>
    /\ sales = <<>>
    /\ \/ call \in {Pending("normalize_text", s) : s \in NormTexts}
       \/ call \in {Pending("parse_product_line", s) : s \in LineTexts}
       \/ call \in {Pending("build_canonical_name", <<sku, w>>) : sku \in Skus, w \in Weights}
       \/ call \in {Pending("extract_weight", s) : s \in WeightTexts}

NextText ==
    \/ NormalizeCall
    \/ ParseCall
    \/ BuildNameCall
    \/ ExtractWeightCall

SpecText == InitText /\ [][NextText]_vars

-----------------------------------------------------------------------------
(* The catalog-authoring handlers of main.py.                              *)

\* product_new with the SKU built from the form's line, not from line_val
product_new_rawline(prods, category, brand, line, flavor, default_weight_g) ==
    LET line_val == IF strip(line) = <<>> THEN None ELSE Some(strip(line))
        p == new_product(category, brand, line_val, flavor, default_weight_g)
        sku == build_canonical_sku(category, brand, Some(line), flavor)
    IN  Append(prods, [p EXCEPT !.canonical_sku = sku,
                                !.canonical_name =
                                    build_canonical_name(sku, default_weight_g)])

\* product_new (lines 80-107): the products table after the form is posted
product_new(prods, category, brand, line, flavor, default_weight_g) ==
    LET line_val == IF strip(line) = <<>> THEN None ELSE Some(strip(line))
    IN  Append(prods, new_product(category, brand, line_val, flavor, default_weight_g))

\* the characters str.splitlines() breaks lines at
LineBreaks == {10, 11, 12, 13, 28, 29, 30, 133, 8232, 8233}

\* str.splitlines()
RECURSIVE splitlines(_)
splitlines(s) ==
    IF s = <<>> THEN <<>>
    ELSE LET breaks == {i \in 1..Len(s) : s[i] \in LineBreaks}
             brk == IF breaks = {} THEN Len(s) + 1
                    ELSE CHOOSE i \in breaks : \A j \in breaks : i <= j
         IN  IF brk > Len(s) THEN <<s>>
             ELSE IF s[brk] = 13 /\ brk < Len(s) /\ s[brk + 1] = 10
             THEN <<SubSeq(s, 1, brk - 1)>> \o splitlines(drop(s, brk + 2))
             ELSE <<SubSeq(s, 1, brk - 1)>> \o splitlines(drop(s, brk + 1))

\* the loop of products_import (lines 124-149) over the lines left
RECURSIVE import_lines(_, _, _, _)
import_lines(prods, category, default_weight_g, lines) ==
    IF lines = <<>> THEN prods
    ELSE LET raw_line == strip(Head(lines))
             parsed == parse_product_line(raw_line)
         IN  IF raw_line = <<>> \/ parsed = None
             THEN import_lines(prods, category, default_weight_g, Tail(lines))
             ELSE import_lines(
                      Append(prods,
                             new_product(category, parsed[1].brand, parsed[1].line,
                                         parsed[1].flavor, default_weight_g)),
                      category, default_weight_g, Tail(lines))

\* products_import (lines 115-154): the products table after the import
products_import(prods, category, default_weight_g, lines) ==
    import_lines(prods, category, default_weight_g, splitlines(lines))

-----------------------------------------------------------------------------
(* The matcher, called on a catalog that product_new built.                *)

BRAND_SARMA == <<1057, 1072, 1088, 1084, 1072>>   \* "Сарма"
BRAND_SARMA_360 == <<1057, 1040, 1056, 1052, 1040, 32, 51, 54, 48>>   \* "САРМА 360"
FLAVOR_BANANA == <<1041, 1072, 1085, 1072, 1085, 1086, 1074, 1086, 1077, 32, 1089, 1091, 1092, 1083, 1077>>   \* "Банановое суфле"
FLAVOR_MANGO == <<1052, 1072, 1085, 1075, 1086>>   \* "Манго"

\* "Табак для кальяна - Сарма 360 - БАНАНОВОЕ СУФЛЕ - 120 г"
LABEL_SCENARIO == <<1058, 1072, 1073, 1072, 1082, 32, 1076, 1083, 1103, 32, 1082, 1072, 1083, 1100, 1103, 1085, 1072, 32, 45, 32, 1057, 1072, 1088, 1084, 1072, 32, 51, 54, 48, 32, 45, 32, 1041, 1040, 1053, 1040, 1053, 1054, 1042, 1054, 1045, 32, 1057, 1059, 1060, 1051, 1045, 32, 45, 32, 49, 50, 48, 32, 1075>>
\* "Сарма БАНАНОВОЕ СУФЛЕ 120 г"
LABEL_BANANA == <<1057, 1072, 1088, 1084, 1072, 32, 1041, 1040, 1053, 1040, 1053, 1054, 1042, 1054, 1045, 32, 1057, 1059, 1060, 1051, 1045, 32, 49, 50, 48, 32, 1075>>
\* "Манго"
LABEL_MANGO == <<1052, 1072, 1085, 1075, 1086>>
\* "САРМА 360 - Манго (новинка)"
LABEL_MANGO_360 == <<1057, 1040, 1056, 1052, 1040, 32, 51, 54, 48, 32, 45, 32, 1052, 1072, 1085, 1075, 1086, 32, 40, 1085, 1086, 1074, 1080, 1085, 1082, 1072, 41>>
\* "Сарма 360 манго лайм"
LABEL_MANGO_LIME == <<1057, 1072, 1088, 1084, 1072, 32, 51, 54, 48, 32, 1084, 1072, 1085, 1075, 1086, 32, 1083, 1072, 1081, 1084>>
\* "(x)"
LABEL_REMARK == <<40, 120, 41>>

MatchLabels == {LABEL_SCENARIO, LABEL_BANANA, LABEL_MANGO, LABEL_MANGO_360,
                LABEL_MANGO_LIME, LABEL_REMARK}

MaxProducts == 2
MatchEntries ==
    {new_product(DEFAULT_CATEGORY, b, None, f, Some(MaxWeight)) :
        b \in {BRAND_SARMA, BRAND_SARMA_360}, f \in {FLAVOR_BANANA, FLAVOR_MANGO}}

\* the catalogs of at most n of these entries, in every order
RECURSIVE CatalogsOf(_, _)
CatalogsOf(entries, n) ==
    IF n = 0 THEN {<<>>}
    ELSE LET shorter == CatalogsOf(entries, n - 1)
         IN  shorter \cup {Append(c, e) : c \in shorter, e \in entries}

\* scores in tenths: 0, 45.0, 69.5, 69.9, 70.0, 82.6, 99.5, 100
Scores == {0, 450, 695, 699, 700, 826, 995, 1000}

\* the scorer's results for the pool of one call
Scorers(prods) == [{prods[i].flavor : i \in 1..Len(prods)} -> Scores]

\* the sales row import_xlsx stores for a label and its match (lines
\* 197-223); a product's id is its position in the products table
new_sale(raw_name, prods, res) ==
    IF res[1] = None
    THEN [raw_name |-> raw_name, product_id |-> None, sku |-> None, name |-> None,
          matched |-> FALSE]
    ELSE LET p == prods[res[1][1]]
             found == extract_weight(raw_name)
             w == IF truthy_int(found) THEN found ELSE p.default_weight_g
         IN  [raw_name |-> raw_name,
              product_id |-> res[1],
              sku |-> Some(p.canonical_sku),
              name |-> Some(build_canonical_name(p.canonical_sku, w)),
              matched |-> TRUE]

\* import_xlsx for a sheet of one row: the label is matched against the
\* products table and the sale is stored
ImportXlsx ==
    /\ IsPending("match_product_by_flavor")
    /\ \E brands \in brand_orders(products) :
        \E score \in Scorers(products) :
            LET res == match_product_by_flavor(call.arg, products, brands, score)
            IN  /\ call' = [op |-> "match_product_by_flavor",
                            arg |-> call.arg,
                            brands |-> brands,
                            score |-> score,
                            done |-> TRUE,
                            res |-> res]
                /\ sales' = Append(sales, new_sale(call.arg, products, res))
    /\ UNCHANGED products

InitMatch ==
    /\ products \in CatalogsOf(MatchEntries, MaxProducts)
    /\ sales = <<>>
    /\ call \in {Pending("match_product_by_flavor", raw) : raw \in MatchLabels}

NextMatch ==
    \/ ImportXlsx

SpecMatch == InitMatch /\ [][NextMatch]_vars

-----------------------------------------------------------------------------
(* Catalog authoring: the forms posted to /admin/products/new and to       *)
(* /admin/products/import.                                                 *)

LINE_FIELD_LIGHT == <<32, 1051, 1077, 1075, 1082, 1072, 1103, 32>>   \* " Легкая "
LINE_FIELD_BLANK == <<32>>                                          \* " "

\* category, brand, line, flavor, default_weight_g
ProductForms ==
    {<<DEFAULT_CATEGORY, BRAND_SARMA, l, FLAVOR_BANANA, w>> :
        l \in {LINE_FIELD_BLANK, LINE_FIELD_LIGHT},
        w \in {None, Some(0), Some(MaxWeight)}}

\* lines of an import, each with its line break
IMPORT_LINE_BANANA == <<34, 1057, 1072, 1088, 1084, 1072, 34, 32, 1041, 1072, 1085, 1072, 1085, 1086, 1074, 1086, 1077, 32, 1089, 1091, 1092, 1083, 1077, 13, 10>>   \* "Сарма" Банановое суфле\r\n
IMPORT_LINE_MANGO == <<34, 1057, 1040, 1056, 1052, 1040, 32, 51, 54, 48, 34, 32, 1051, 1077, 1075, 1082, 1072, 1103, 32, 1052, 1072, 1085, 1075, 1086, 10>>   \* "САРМА 360" Легкая Манго\n
IMPORT_LINE_NO_QUOTE == <<1052, 1072, 1085, 1075, 1086, 32, 1073, 1077, 1079, 32, 1073, 1088, 1077, 1085, 1076, 1072, 10>>   \* Манго без бренда\n
IMPORT_LINE_NO_FLAVOR == <<34, 1057, 1072, 1088, 1084, 1072, 34, 10>>   \* "Сарма"\n
IMPORT_LINE_BLANK == <<32, 10>>

MaxImportLines == 2
ImportTexts ==
    Concats({IMPORT_LINE_BANANA, IMPORT_LINE_MANGO, IMPORT_LINE_NO_QUOTE,
             IMPORT_LINE_NO_FLAVOR, IMPORT_LINE_BLANK}, MaxImportLines)

\* category, default_weight_g, lines
ImportForms ==
    {<<DEFAULT_CATEGORY, w, lines>> : w \in {None, Some(MaxWeight)}, lines \in ImportTexts}

\* a form is posted to /admin/products/new while the table has room
PostProductNew ==
    /\ call.done
    /\ Len(products) < MaxProducts
    /\ \E form \in ProductForms : call' = Pending("product_new", form)
    /\ UNCHANGED <<products, sales>>

\* a form is posted to /admin/products/import while the table has room
PostProductsImport ==
    /\ call.done
    /\ Len(products) < MaxProducts
    /\ \E form \in ImportForms : call' = Pending("products_import", form)
    /\ UNCHANGED <<products, sales>>

ProductNew ==
    /\ IsPending("product_new")
    /\ products' = product_new(products, call.arg[1], call.arg[2], call.arg[3],
                               call.arg[4], call.arg[5])
    /\ call' = [op |-> "product_new", arg |-> call.arg, done |-> TRUE,
                before |-> Len(products)]
    /\ UNCHANGED sales

ProductsImport ==
    /\ IsPending("products_import")
    /\ LET after == products_import(products, call.arg[1], call.arg[2], call.arg[3])
       IN  /\ products' = after
           /\ call' = [op |-> "products_import", arg |-> call.arg, done |-> TRUE,
                       before |-> Len(products), res |-> Len(after) - Len(products)]
    /\ UNCHANGED sales

Init ==
    /\ products = <<>>
    /\ sales = <<>>
    /\ call = [op |-> "none", done |-> TRUE]

Next ==
    \/ PostProductNew
    \/ PostProductsImport
    \/ ProductNew
    \/ ProductsImport

Spec == Init /\ [][Next]_vars

-----------------------------------------------------------------------------
(* The flavor extractor, called on catalogs of several brands.             *)

BRAND_DYMOK == <<1044, 1099, 1084, 1086, 1082>>   \* "Дымок"

\* "Дымок Сарма манго"
LABEL_TWO_BRANDS == <<1044, 1099, 1084, 1086, 1082, 32, 1057, 1072, 1088, 1084, 1072, 32, 1084, 1072, 1085, 1075, 1086>>

ExtractLabels == {LABEL_SCENARIO, LABEL_MANGO, LABEL_MANGO_360, LABEL_MANGO_LIME,
                  LABEL_TWO_BRANDS}

ExtractEntries ==
    {new_product(DEFAULT_CATEGORY, b, None, FLAVOR_MANGO, Some(MaxWeight)) :
        b \in {BRAND_SARMA, BRAND_SARMA_360, BRAND_DYMOK}}

\* extract_flavor_from_raw(raw, products): the brands are sorted (line 116) and
\* the flavor is extracted
ExtractFlavorCall ==
    /\ IsPending("extract_flavor_from_raw")
    /\ \E brands \in brand_orders(products) :
           call' = [op |-> "extract_flavor_from_raw",
                    arg |-> call.arg,
                    brands |-> brands,
                    done |-> TRUE,
                    res |-> extract_flavor_from_raw(call.arg, brands)]
    /\ UNCHANGED <<products, sales>>

InitExtract ==
    /\ products \in CatalogsOf(ExtractEntries, MaxProducts)
    /\ sales = <<>>
    /\ call \in {Pending("extract_flavor_from_raw", raw) : raw \in ExtractLabels}

NextExtract ==
    \/ ExtractFlavorCall

SpecExtract == InitExtract /\ [][NextExtract]_vars

-----------------------------------------------------------------------------
(* The matcher, called with the flavor of a catalog entry as the label.    *)

FLAVOR_HONEY == <<1052, 1105, 1076>>   \* "Мёд"
FLAVOR_MANGO_LIME == <<1052, 1072, 1085, 1075, 1086, 45, 1083, 1072, 1081, 1084>>   \* "Манго-лайм"

SelfEntries ==
    {new_product(DEFAULT_CATEGORY, BRAND_SARMA, None, f, Some(MaxWeight)) :
        f \in {FLAVOR_MANGO, FLAVOR_MANGO_LIME, FLAVOR_HONEY}}

InitSelf ==
    /\ products \in CatalogsOf(SelfEntries, MaxProducts)
    /\ sales = <<>>
    /\ call \in {Pending("match_product_by_flavor", products[i].flavor) :
                    i \in 1..Len(products)}

SpecSelfMatch == InitSelf /\ [][NextMatch]_vars

-----------------------------------------------------------------------------
(* Reconciliation: the catalog is authored through /admin/products/new and  *)
(* /admin/products/import, then a sheet of one row is imported.            *)

FLAVOR_REMARK == <<40, 1085, 1086, 1074, 1080, 1085, 1082, 1072, 41>>   \* "(новинка)"
IMPORT_LINE_REMARK == <<34, 1057, 1072, 1088, 1084, 1072, 34, 32, 40, 1085, 1086, 1074, 1080, 1085, 1082, 1072, 41, 10>>   \* "Сарма" (новинка)\n

\* category, brand, line, flavor, default_weight_g
FlavorForms ==
    {<<DEFAULT_CATEGORY, BRAND_SARMA, LINE_FIELD_BLANK, f, Some(MaxWeight)>> :
        f \in {FLAVOR_MANGO, FLAVOR_REMARK}}

\* category, default_weight_g, lines
FlavorImports ==
    {<<DEFAULT_CATEGORY, None, lines>> :
        lines \in Concats({IMPORT_LINE_MANGO, IMPORT_LINE_REMARK}, MaxImportLines)}

SheetLabels == {LABEL_REMARK, LABEL_MANGO, LABEL_MANGO_360}

\* a form is posted to /admin/products/new before any sheet is imported
PostFlavorForm ==
    /\ call.done
    /\ sales = <<>>
    /\ Len(products) < MaxProducts
    /\ \E form \in FlavorForms : call' = Pending("product_new", form)
    /\ UNCHANGED <<products, sales>>

\* a form is posted to /admin/products/import before any sheet is imported
PostFlavorImport ==
    /\ call.done
    /\ sales = <<>>
    /\ Len(products) < MaxProducts
    /\ \E form \in FlavorImports : call' = Pending("products_import", form)
    /\ UNCHANGED <<products, sales>>

\* a sheet of one row is posted to /import-xlsx
PostSheet ==
    /\ call.done
    /\ sales = <<>>
    /\ \E raw \in SheetLabels : call' = Pending("match_product_by_flavor", raw)
    /\ UNCHANGED <<products, sales>>

NextReconcile ==
    \/ PostFlavorForm
    \/ PostFlavorImport
    \/ ProductNew
    \/ ProductsImport
    \/ PostSheet
    \/ ImportXlsx

SpecReconcile == Init /\ [][NextReconcile]_vars

-----------------------------------------------------------------------------
(* Claims about the text functions, under SpecText.                        *)

\* C7: normalizing a normalized text changes nothing:
\* normalize(normalize(x)) = normalize(x) for every input text x.
C7_NormalizeIdempotent ==
    IsReturned("normalize_text") => normalize_text(call.res) = call.res

\* a text with a parenthesis, a hyphen or an upper-case letter was normalized to
\* a non-empty text other than itself
C7_Witness ==
    /\ IsReturned("normalize_text")
    /\ call.res # call.arg
    /\ call.res # <<>>
    /\ \E i \in 1..Len(call.arg) : call.arg[i] \in {LPAREN, HYPHEN, 1025}

\* C5 as claimed: buildName(sku, w) is sku, a space, the decimal weight and "г."
\* exactly when w is present and strictly positive; for w absent, zero or
\* negative it is sku unchanged.
C5_NameSuffixPositiveOnly ==
    IsReturned("build_canonical_name") =>
        LET sku == call.arg[1]
            w == call.arg[2]
        IN  IF w # None /\ w[1] > 0
            THEN call.res = sku \o <<SP>> \o str_nat(w[1]) \o UNIT_SUFFIX
            ELSE call.res = sku

\* the index of the first double quote of line after index i, 0 when none
quote_after(line, i) ==
    IF \E j \in (i + 1)..Len(line) : line[j] = QUOTE
    THEN CHOOSE j \in (i + 1)..Len(line) :
             line[j] = QUOTE /\ \A k \in (i + 1)..(j - 1) : line[k] # QUOTE
    ELSE 0

\* C6 as claimed: the parser returns nothing exactly when the trimmed line has no
\* double quote, or no closing quote for its first double quote, or an empty
\* flavor after the closing quote and the optional marker; every other line
\* (text before the first quote included) gives the exact substring between the
\* first pair of quotes as brand and a non-empty flavor.
C6_ParserAsClaimed ==
    IsReturned("parse_product_line") =>
        LET line == strip(call.arg)
            q1 == quote_after(line, 0)
            q2 == IF q1 = 0 THEN 0 ELSE quote_after(line, q1)
            left == split_marker(strip(drop(line, q2 + 1))).flavor
            rejected == q1 = 0 \/ q2 = 0 \/ left = <<>>
        IN  /\ call.res = None <=> rejected
            /\ call.res # None =>
                   /\ call.res[1].brand = SubSeq(line, q1 + 1, q2 - 1)
                   /\ call.res[1].flavor # <<>>

\* C6, amended: the parser returns nothing exactly when the trimmed line does not
\* begin with a double quote, or that quote has no closing quote, or is closed at
\* once (an empty brand), or nothing follows the closing quote; every other line
\* gives the trimmed substring between the first pair of quotes as brand and a
\* non-empty flavor.
C6_ParserAmended ==
    IsReturned("parse_product_line") =>
        LET line == strip(call.arg)
            q2 == quote_after(line, 1)
            rejected == \/ line = <<>>
                        \/ line[1] # QUOTE
                        \/ q2 = 0
                        \/ q2 = 2
                        \/ q2 = Len(line)
        IN  /\ call.res = None <=> rejected
            /\ call.res # None =>
                   /\ call.res[1].brand = strip(SubSeq(line, 2, q2 - 1))
                   /\ call.res[1].flavor # <<>>

\* a line with a marker was accepted, and its brand is not the exact text between
\* the quotes (it was trimmed)
C6_Witness ==
    /\ IsReturned("parse_product_line")
    /\ call.res # None
    /\ call.res[1].line = Some(MARKER_LIGHT)
    /\ LET line == strip(call.arg)
       IN  call.res[1].brand # SubSeq(line, 2, quote_after(line, 1) - 1)

\* whether a whole-word weight annotation starts at index i of s: a digit run,
\* optional whitespace and a unit token (г, гр or g) that ends at a word boundary
annotation_at(s, i) ==
    /\ IsDigit(s[i])
    /\ i = 1 \/ ~IsDigit(s[i - 1])
    /\ LET u == unit_index(s, i)
           whole(e) == e = Len(s) \/ ~IsWordChar(s[e + 1])
       IN  /\ u <= Len(s)
           /\ \/ s[u] \in {UNIT_CYR, UNIT_LAT} /\ whole(u)
              \/ /\ s[u] = UNIT_CYR
                 /\ u < Len(s)
                 /\ s[u + 1] = UNIT_CYR_R
                 /\ whole(u + 1)

\* C10 as claimed: extractWeight returns n only if the label holds the digit run n,
\* optional whitespace and a unit token (г, гр, g) standing as a whole word, and
\* nothing otherwise; a number before a word that only begins with г or g is no
\* weight.
C10_WeightWholeWord ==
    IsReturned("extract_weight") =>
        LET s == lower(call.arg)
            marks == {i \in 1..Len(s) : annotation_at(s, i)}
        IN  IF call.res = None
            THEN marks = {}
            ELSE \E i \in marks :
                     int_digits(SubSeq(s, i, digits_end(s, i) - 1)) = call.res[1]

-----------------------------------------------------------------------------
(* Claims about the matcher, under SpecMatch.                              *)

IsMatched == IsReturned("match_product_by_flavor") /\ products # <<>>

\* the normalized query of the returned call, recomputed from its inputs
MatchKey ==
    LET q == extract_flavor_from_raw(call.arg, call.brands)
    IN  normalize_text(IF q = <<>> THEN call.arg ELSE q)

\* the candidates whose normalizedFlavor is that query
ExactHits ==
    LET key == MatchKey
    IN  {i \in 1..Len(products) : products[i].norm_flavor = key}

\* the scorer's result for candidate i, and the best over the candidates
ScoreOf(i) == call.score[products[i].flavor]
BestScore ==
    CHOOSE b \in {ScoreOf(i) : i \in 1..Len(products)} :
        \A i \in 1..Len(products) : ScoreOf(i) <= b

IsFuzzy == IsMatched /\ ExactHits = {}

\* C1: when a candidate's normalizedFlavor equals the normalized query, match
\* returns the earliest such candidate with score 100, whatever the scorer gives.
C1_ExactFirst ==
    IsMatched =>
        LET hits == ExactHits
        IN  hits # {} =>
                \E i \in hits :
                    /\ \A j \in hits : i <= j
                    /\ call.res = <<Some(i), 100>>

\* two candidates match exactly, and the scorer rates a candidate that does not
\* at 100 and the matching ones lower
C1_Witness ==
    /\ IsMatched
    /\ Cardinality(ExactHits) = 2
    /\ call.res = <<Some(1), 100>>
    /\ products[1].brand # products[2].brand
    /\ ScoreOf(1) < 70 * ScoreScale

\* C2: with no exact match an entry is returned only if the best score is at
\* least 70, and a best score below 70 gives (none, s) with s < 70; in every
\* result a returned entry implies a score of at least 70, and 0 <= score <= 100.
C2_Threshold ==
    IsReturned("match_product_by_flavor") =>
        /\ call.res[2] \in 0..100
        /\ call.res[1] # None => call.res[2] >= 70
        /\ IsFuzzy =>
               IF BestScore < 70 * ScoreScale
               THEN call.res[1] = None /\ call.res[2] < 70
               ELSE call.res[1] # None

\* the best score is 69.9 or 69.5, just under the threshold, and nothing is
\* returned
C2_Witness ==
    /\ IsFuzzy
    /\ BestScore \in {695, 699}
    /\ call.res = <<None, 69>>

\* C3 as claimed: with no exact match, of the candidates that attain the highest
\* score (candidates of one flavor string included) the earliest is returned.
C3_FirstOccurrenceTie ==
    (IsFuzzy /\ call.res[1] # None) =>
        \E i \in 1..Len(products) :
            /\ ScoreOf(i) = BestScore
            /\ \A j \in 1..(i - 1) : ScoreOf(j) # BestScore
            /\ call.res[1] = Some(i)

\* C4 as claimed: in the approximate pass the score returned is the best score
\* rounded to the nearest integer (82.6 gives 83).
C4_ScoreRounded ==
    IsFuzzy =>
        /\ 2 * (call.res[2] * ScoreScale - BestScore) <= ScoreScale
        /\ 2 * (BestScore - call.res[2] * ScoreScale) <= ScoreScale

\* C4, amended: in the approximate pass the score returned is the best score
\* truncated to its integer part (82.6 gives 82), with an entry and without.
C4_ScoreTruncated ==
    IsFuzzy =>
        /\ call.res[2] * ScoreScale <= BestScore
        /\ BestScore < (call.res[2] + 1) * ScoreScale

\* a best score of 82.6 was reported as 82 with its entry
C4_Witness ==
    /\ IsFuzzy
    /\ BestScore = 826
    /\ call.res[1] # None
    /\ call.res[2] = 82

\* the catalog and the call of the end-to-end scenario
IsScenario ==
    /\ IsReturned("match_product_by_flavor")
    /\ Len(products) = 1
    /\ products[1].brand = BRAND_SARMA
    /\ products[1].line = None
    /\ products[1].flavor = FLAVOR_BANANA
    /\ call.arg = LABEL_SCENARIO

\* C8 as claimed: in the scenario the normalized query equals the entry's
\* normalized flavor, match returns the entry with a score of at least 90, and
\* extractWeight returns 120.
C8_ScenarioAsClaimed ==
    IsScenario =>
        /\ MatchKey = products[1].norm_flavor
        /\ call.res[1] = Some(1)
        /\ call.res[2] >= 90
        /\ extract_weight(call.arg) = Some(120)

\* C8, amended: in the scenario the extractor removes the category phrase, the
\* brand "сарма" and the weight but keeps the "360" after the brand, so the
\* normalized query is "360 банановое суфле" and not the entry's normalized
\* flavor; the exact pass misses, match returns the entry with the scorer's
\* truncated score when that score is at least 70 and nothing otherwise, and
\* extractWeight returns 120.
C8_ScenarioAmended ==
    IsScenario =>
        /\ MatchKey = <<51, 54, 48, 32>> \o products[1].norm_flavor
        /\ products[1].norm_flavor = lower(FLAVOR_BANANA)
        /\ IF call.score[FLAVOR_BANANA] >= 70 * ScoreScale
           THEN call.res = <<Some(1), call.score[FLAVOR_BANANA] \div ScoreScale>>
           ELSE call.res[1] = None
        /\ extract_weight(call.arg) = Some(120)

\* the scenario's call returned the entry on a score of 82.6
C8_Witness ==
    /\ IsScenario
    /\ call.score[FLAVOR_BANANA] = 826
    /\ call.res = <<Some(1), 82>>

-----------------------------------------------------------------------------
(* Claims about the catalog-authoring handlers, checked under Spec.        *)

\* the lines, in order, that parse_product_line accepts
accepted(lines) == SelectSeq(lines, LAMBDA l : parse_product_line(l) # None)

\* the fields of a products row that are derived from its other fields
derived_in_sync(p) ==
    /\ p.canonical_sku = build_canonical_sku(p.category, p.brand, p.line, p.flavor)
    /\ p.canonical_name = build_canonical_name(p.canonical_sku, p.default_weight_g)
    /\ p.norm_brand = normalize_text(p.brand)
    /\ p.norm_flavor = normalize_text(p.flavor)

\* C9: after any sequence of product creations and bulk imports, every row
\* of the products table has canonical_sku = build_canonical_sku(category,
\* brand, line, flavor), canonical_name = build_canonical_name(canonical_sku,
\* default_weight_g), norm_brand = normalize_text(brand) and norm_flavor =
\* normalize_text(flavor); and a bulk import adds exactly one row per line
\* that parse_product_line accepts, in order and with the parsed fields, and
\* none for a rejected line.
C9_CatalogDerivedFields ==
    /\ \A i \in 1..Len(products) : derived_in_sync(products[i])
    /\ IsReturned("products_import") =>
           LET acc == accepted(splitlines(call.arg[3]))
           IN  /\ Len(products) = call.before + Len(acc)
               /\ call.res = Len(acc)
               /\ \A k \in 1..Len(acc) :
                      LET p == products[call.before + k]
                          parsed == parse_product_line(acc[k])[1]
                      IN  /\ p.category = call.arg[1]
                          /\ p.brand = parsed.brand
                          /\ p.line = parsed.line
                          /\ p.flavor = parsed.flavor
                          /\ p.default_weight_g = call.arg[2]

\* a product created from the form with the line " Легкая " is followed by an
\* import of two lines, one accepted (with a line marker) and one rejected
C9_Witness ==
    /\ IsReturned("products_import")
    /\ call.arg[3] = IMPORT_LINE_NO_QUOTE \o IMPORT_LINE_MANGO
    /\ call.before = 1
    /\ call.res = 1
    /\ Len(products) = 2
    /\ products[1].line = Some(MARKER_LIGHT)
    /\ products[1].default_weight_g = Some(0)
    /\ products[1].canonical_name = products[1].canonical_sku
    /\ products[2].line = Some(MARKER_LIGHT)
    /\ products[2].brand = BRAND_SARMA_360
    /\ products[2].norm_flavor = normalize_text(FLAVOR_MANGO)

-----------------------------------------------------------------------------
(* Claims about the flavor extractor, checked under SpecExtract.           *)

\* the cleaning after the brand is cut (lines 124-131)
clean_flavor(text) ==
    split_join(replace_char(sub_class(text, FlavorClass), HYPHEN, SP))

\* the lowercased candidate brands that occur in the working text of the call
OccurringBrands ==
    LET text == strip_noise(call.arg)
    IN  {b \in brand_set(products) : find(text, b) # 0}

\* C11: of the distinct lowercased candidate brands that occur in the working
\* text, a longest one is the cut point: the text up to and including the end of
\* its first occurrence is discarded and only the text after it is cleaned into
\* the result; when no candidate brand occurs, the whole working text is cleaned.
C11_LongestBrandCut ==
    IsReturned("extract_flavor_from_raw") =>
        LET text == strip_noise(call.arg)
            occurring == OccurringBrands
        IN  IF occurring = {} THEN call.res = clean_flavor(text)
            ELSE \E b \in occurring :
                    /\ \A c \in occurring : Len(c) <= Len(b)
                    /\ call.res = clean_flavor(drop(text, find(text, b) + Len(b)))

\* the brands "сарма" and "сарма 360" both occur in "Сарма 360 манго лайм", and
\* the cut is after "360"
C11_Witness ==
    /\ IsReturned("extract_flavor_from_raw")
    /\ call.arg = LABEL_MANGO_LIME
    /\ OccurringBrands = {lower(BRAND_SARMA), lower(BRAND_SARMA_360)}
    /\ call.res = <<1084, 1072, 1085, 1075, 1086, 32, 1083, 1072, 1081, 1084>>

\* C12 as claimed: the extracted flavor depends only on the raw label and the set
\* of candidate brands: every order in which the call may iterate the brands
\* gives the result the call returned, also when two brands of one length both
\* occur in the label.
C12_ExtractorDeterministic ==
    IsReturned("extract_flavor_from_raw") =>
        \A order \in brand_orders(products) :
            extract_flavor_from_raw(call.arg, order) = call.res

-----------------------------------------------------------------------------
(* Claims about a label that is a catalog flavor, under SpecSelfMatch.     *)

\* Latin and Cyrillic letters (with U+0401 and U+0451), digits, hyphen, space
PlainChars ==
    (65..90) \cup (97..122) \cup (1040..1103) \cup {1025, YO} \cup Digits
        \cup {HYPHEN, SP}

\* a flavor of plain characters in which the extractor finds no weight
\* annotation, line-marker word or category phrase, and no candidate brand
NoiseFree(f) ==
    /\ \A i \in 1..Len(f) : f[i] \in PlainChars
    /\ strip_noise(f) = lower(f)
    /\ \A b \in brand_set(products) : find(lower(f), b) = 0

\* C13 as claimed: when the label is the noise-free flavor of a candidate, the
\* normalized extracted flavor is the normalized flavor, and match returns a
\* candidate of that normalized flavor with score 100.
C13_FlavorSelfMatch ==
    (/\ IsMatched
     /\ \E i \in 1..Len(products) : products[i].flavor = call.arg
     /\ NoiseFree(call.arg)) =>
        LET key == normalize_text(call.arg)
        IN  /\ normalize_text(extract_flavor_from_raw(call.arg, call.brands)) = key
            /\ call.res[1] # None
            /\ products[call.res[1][1]].norm_flavor = key
            /\ call.res[2] = 100

-----------------------------------------------------------------------------
(* Claims about the brand of the matched entry, under SpecMatch.           *)

\* the brand the extractor cut the label at: the first brand of the call's
\* sorted list that occurs in the working text, None when no brand occurs
ExcisedBrand ==
    LET text == strip_noise(call.arg)
        occ == {k \in 1..Len(call.brands) : find(text, call.brands[k]) # 0}
    IN  IF occ = {} THEN None ELSE Some(call.brands[first_of(occ)])

\* C14 as claimed: when the extractor excised candidate brand b from the label
\* and match returns an entry, the lowercased brand of that entry is b.
C14_BrandConsistency ==
    (/\ IsMatched
     /\ call.res[1] # None
     /\ ExcisedBrand # None) =>
        lower(products[call.res[1][1]].brand) = ExcisedBrand[1]

-----------------------------------------------------------------------------
(* Claims about matching on an authored catalog, under SpecReconcile.      *)

\* C15 as claimed: every entry of a catalog built by product creations and bulk
\* imports has a non-empty normalizedFlavor, and so for a label whose normalized
\* query is empty no candidate matches exactly: match returns an entry with
\* score 100 only if the scorer itself rates that entry's flavor at 100.
C15_NoEmptyKeyMatch ==
    /\ \A i \in 1..Len(products) : products[i].norm_flavor # <<>>
    /\ (IsMatched /\ MatchKey = <<>>) =>
           /\ ExactHits = {}
           /\ \A i \in 1..Len(products) :
                  call.res = <<Some(i), 100>> => ScoreOf(i) >= 100 * ScoreScale

=============================================================================
